---- MODULE Spec2Model ----
(***************************************************************************)
(* Model of shelltrax's player (src/player/mod.rs): the Player controller, *)
(* the decode thread spawned by Player::play, and the cpal output callback *)
(* closure built by Player::play.                                          *)
(*                                                                         *)
(* Three kinds of threads run concurrently:                                *)
(*   - the control thread, calling play / stop / pause / resume;          *)
(*   - one decode thread per play() call (never joined, never cancelled);  *)
(*   - the audio callback of the stream currently held in Player.stream.   *)
(*                                                                         *)
(* Every play() call creates a new "session" s = 1, 2, ...: a fresh        *)
(* sample_buf (the VecDeque the decode thread extends and the callback     *)
(* pops), a fresh stream and a fresh decode thread.  The three atomics     *)
(* autoplay_trigger, is_decoder_done and paused_flag are created once in   *)
(* Player::new and only Arc::clone'd by play(), hence they are single      *)
(* variables here, shared by all sessions.                                 *)
(*                                                                         *)
(* A normalized f32 sample is written <<raw, divisor>>, the quotient the   *)
(* code computes; 0.0 (silence) is <<0, 1>>.                               *)
(***************************************************************************)
EXTENDS Integers, Sequences, FiniteSets, TLC

\* ---------------------------------------------------------------- bounds
\* number of play() calls in a run (each one spawns a decode thread)
MaxSessions == 2
\* largest output slice the audio device hands to the callback
MaxN == 2

\* ------------------------------------------------------ program constants
I16Max == 32767
U8Max == 255
S24Div == 8388608
I32Max == 2147483647

SessionIds == 1..MaxSessions

None == "None"
Silence == <<0, 1>>
\* content of the device's slice before the callback wrote it
Stale == <<0, 0>>

\* ------------------------------------------------------------ media files
\* A packet is what format.next_packet() yields; decoder.decode gives either
\* Err or an AudioBufferRef of some sample format with planar channels
\* (chan[c][f] is buf.chan(c)[f]).
PktS16 == [res |-> "ok", fmt |-> "S16", chan |-> << <<100>>, <<-100>> >>]
PktBad == [res |-> "err", fmt |-> "S16", chan |-> << <<1>> >>]
PktU8 == [res |-> "ok", fmt |-> "U8", chan |-> << <<7>> >>]
PktS8 == [res |-> "ok", fmt |-> "S8", chan |-> << <<5, 6>> >>]
PktF32 == [res |-> "ok", fmt |-> "F32", chan |-> << <<3>> >>]

Paths == {"a.flac", "b.wav"}

\* one-packet files, one for each sample format the decode thread converts,
\* with several frames and channels (the S16 one is the packet
\* [(100,-100), (32767,-32768)])
FormatFiles == {"f32.raw", "s16.raw", "u8.raw", "s24.raw", "f64.raw", "s32.raw"}

\* the packet of a one-packet file
FormatPacket(path) ==
    CASE path = "f32.raw" -> [res |-> "ok", fmt |-> "F32", chan |-> << <<1, 2>>, <<3, 4>> >>]
      [] path = "s16.raw" ->
            [res |-> "ok", fmt |-> "S16", chan |-> << <<100, 32767>>, <<-100, -32768>> >>]
      [] path = "u8.raw" -> [res |-> "ok", fmt |-> "U8", chan |-> << <<10, 20, 255>> >>]
      [] path = "s24.raw" -> [res |-> "ok", fmt |-> "S24", chan |-> << <<11>>, <<12>>, <<13>> >>]
      [] path = "f64.raw" ->
            [res |-> "ok", fmt |-> "F64", chan |-> << <<21, 22>>, <<23, 24>>, <<25, 26>> >>]
      [] path = "s32.raw" ->
            [res |-> "ok", fmt |-> "S32", chan |-> << <<31, 32, 33>>, <<34, 35, 36>> >>]

\* the packets of each file, in stream order
Packets(path) ==
    IF path = "a.flac" THEN <<PktS16, PktBad, PktU8>>
    ELSE IF path = "b.wav" THEN <<PktS8, PktF32>>
    ELSE <<FormatPacket(path)>>

VARIABLES
    current_path,      \* Player.current_path: None or a path
    is_playing,        \* Player.is_playing
    handle,            \* Player.handle: 0 (None) or the session whose thread it names
    stream,            \* Player.stream: 0 (None) or the session whose callback it runs
    buffer,            \* Player.buffer: the controller's own Vec<f32>
    autoplay_trigger,  \* Player.autoplay_trigger (one AtomicBool for all sessions)
    is_decoder_done,   \* Player.is_decoder_done (one AtomicBool for all sessions)
    is_paused,         \* Player.is_paused
    paused_flag,       \* Player.paused_flag (one AtomicBool for all sessions)
    nsessions,         \* number of play() calls so far
    source,            \* source[s]: the file session s decodes
    sample_buf,        \* sample_buf[s]: the VecDeque of session s
    lock,              \* lock[s]: holder of sample_buf[s]'s mutex
    wpc,               \* wpc[s]: position of session s's decode thread
    pkt,               \* pkt[s]: packets session s's thread has taken from format
    samples,           \* samples[s]: the thread's local Vec of normalized samples
    cb_pc,             \* position of the audio callback
    data,              \* the output slice of the running callback (<<>> between calls)
    pushed,            \* history: all samples session s's thread appended
    popped             \* history: all samples the callback took from sample_buf[s]

ctl == <<current_path, is_playing, handle, stream, buffer, is_paused, nsessions, source>>
flags == <<autoplay_trigger, is_decoder_done, paused_flag>>
wrk == <<wpc, pkt, samples>>
vars == <<current_path, is_playing, handle, stream, buffer, autoplay_trigger,
          is_decoder_done, is_paused, paused_flag, nsessions, source, sample_buf,
          lock, wpc, pkt, samples, cb_pc, data, pushed, popped>>

\* ------------------------------------------------------- decode: helpers
\* the formats the normalization match has an arm for
Supported == {"F32", "S16", "U8", "S24", "F64", "S32"}

\* one arm of the normalization match
Normalize(fmt, v) ==
    CASE fmt = "F32" -> <<v, 1>>
      [] fmt = "S16" -> <<v, I16Max>>
      [] fmt = "U8" -> <<v, U8Max>>
      [] fmt = "S24" -> <<v, S24Div>>
      [] fmt = "F64" -> <<v, 1>>
      [] fmt = "S32" -> <<v, I32Max>>

RECURSIVE ChanLoop(_, _, _)
\* for ch in 0..channels { samples.push(conv(buf.chan(ch)[frame])) }, from channel ch on
ChanLoop(p, frame, ch) ==
    IF ch > Len(p.chan) THEN <<>>
    ELSE <<Normalize(p.fmt, p.chan[ch][frame])>> \o ChanLoop(p, frame, ch + 1)

RECURSIVE PlanarFrom(_, _)
\* the channels from ch on, one whole channel after the other
PlanarFrom(p, ch) ==
    IF ch > Len(p.chan) THEN <<>>
    ELSE [f \in 1..Len(p.chan[ch]) |-> Normalize(p.fmt, p.chan[ch][f])]
            \o PlanarFrom(p, ch + 1)

\* a slip: the two loops swapped (channel-major)
FrameLoopPlanar(p, frame) == PlanarFrom(p, 1)

RECURSIVE FrameLoop(_, _)
\* for frame in 0..buf.frames() { ... }, from frame on
FrameLoop(p, frame) ==
    IF frame > Len(p.chan[1]) THEN <<>>
    ELSE ChanLoop(p, frame, 1) \o FrameLoop(p, frame + 1)

\* a slip: `break` instead of `continue` on a decode error
AfterDecodeErrBreak == "store_done"

\* where the loop goes after decoder.decode returned Err: `continue`
AfterDecodeErr == "next_packet"

\* a slip: `break` instead of `continue` on an unsupported format
AfterUnsupportedBreak == "store_done"

\* where the loop goes after the `_` arm of the match: `continue`
AfterUnsupported == "next_packet"

\* a slip: the thread ends without raising the flag
DoneStoredFalse == FALSE

\* the value the thread stores into is_decoder_done after its loop
DoneStored == TRUE

\* a slip: the batch put in front of the queue
ExtendFront(buf, smp) == smp \o buf

\* decode_buffer.lock().unwrap().extend(samples)
Extend(buf, smp) == buf \o smp

\* ----------------------------------------------------- callback: helpers
RECURSIVE FillDataBack(_, _)
\* a slip: pop_back instead of pop_front
FillDataBack(buf, n) ==
    IF n = 0 THEN [data |-> <<>>, buf |-> buf, got |-> <<>>]
    ELSE IF buf = <<>>
         THEN LET r == FillDataBack(buf, n - 1)
              IN [data |-> <<Silence>> \o r.data, buf |-> r.buf, got |-> r.got]
         ELSE LET last == buf[Len(buf)]
                  r == FillDataBack(SubSeq(buf, 1, Len(buf) - 1), n - 1)
              IN [data |-> <<last>> \o r.data, buf |-> r.buf, got |-> <<last>> \o r.got]

RECURSIVE FillData(_, _)
\* for sample in data.iter_mut() { *sample = buf.pop_front().unwrap_or(0.0) }
\* over n slots: the slice written, the queue left, and the samples really popped
FillData(buf, n) ==
    IF n = 0 THEN [data |-> <<>>, buf |-> buf, got |-> <<>>]
    ELSE IF buf = <<>>
         THEN LET r == FillData(buf, n - 1)
              IN [data |-> <<Silence>> \o r.data, buf |-> r.buf, got |-> r.got]
         ELSE LET r == FillData(Tail(buf), n - 1)
              IN [data |-> <<Head(buf)>> \o r.data, buf |-> r.buf,
                  got |-> <<Head(buf)>> \o r.got]

\* a slip: the paused branch pops the samples it replaces by silence
PausedFillDrop(buf, n) ==
    [data |-> [i \in 1..n |-> Silence],
     buf |-> SubSeq(buf, (IF n < Len(buf) THEN n ELSE Len(buf)) + 1, Len(buf)),
     got |-> <<>>]

\* the paused branch: for sample in data.iter_mut() { *sample = 0.0 }; return
PausedFill(buf, n) ==
    [data |-> [i \in 1..n |-> Silence], buf |-> buf, got |-> <<>>]

\* a slip: the decoder_done test left out
TriggerCondNoDone(buf, done) == buf = <<>>

\* buf.is_empty() && decoder_done.load()
TriggerCond(buf, done) == buf = <<>> /\ done

\* -------------------------------------------------------- control thread
\* Player::is_loaded
is_loaded == current_path # None

\* Player::is_done: reads Player.buffer, not the session's sample_buf
is_done == buffer = <<>> /\ is_playing

Init ==
    /\ current_path = None
    /\ is_playing = FALSE
    /\ handle = 0
    /\ stream = 0
    /\ buffer = <<>>
    /\ autoplay_trigger = FALSE
    /\ is_decoder_done = FALSE
    /\ is_paused = FALSE
    /\ paused_flag = FALSE
    /\ nsessions = 0
    /\ source = [s \in SessionIds |-> None]
    /\ sample_buf = [s \in SessionIds |-> <<>>]
    /\ lock = [s \in SessionIds |-> "free"]
    /\ wpc = [s \in SessionIds |-> "unborn"]
    /\ pkt = [s \in SessionIds |-> 0]
    /\ samples = [s \in SessionIds |-> <<>>]
    /\ cb_pc = "idle"
    /\ data = <<>>
    /\ pushed = [s \in SessionIds |-> <<>>]
    /\ popped = [s \in SessionIds |-> <<>>]

\* a slip: a stop() that also resets the end-of-track signal and the pause
StopResetsFlags ==
    /\ cb_pc = "idle"
    /\ stream' = 0
    /\ is_playing' = FALSE
    /\ current_path' = None
    /\ buffer' = <<>>
    /\ autoplay_trigger' = FALSE
    /\ is_paused' = FALSE
    /\ paused_flag' = FALSE
    /\ UNCHANGED <<handle, nsessions, source, is_decoder_done, sample_buf, lock,
                   wrk, cb_pc, data, pushed, popped>>

\* Player::stop.  Dropping the stream ends its callbacks; the drop waits for a
\* callback that is running.
Stop ==
    /\ cb_pc = "idle"
    /\ stream' = 0
    /\ is_playing' = FALSE
    /\ current_path' = None
    /\ buffer' = <<>>
    /\ UNCHANGED <<handle, is_paused, nsessions, source, flags, sample_buf, lock,
                   wrk, cb_pc, data, pushed, popped>>

\* Player::play(path), with the file opening, probing and device set-up
\* succeeding: stop(), reset of the two flags, a fresh sample_buf, a stream
\* bound to it, the decode thread, and the controller's fields.
Play(path) ==
    /\ nsessions < MaxSessions
    /\ cb_pc = "idle"
    /\ LET s == nsessions + 1 IN
        /\ nsessions' = s
        /\ autoplay_trigger' = FALSE
        /\ is_decoder_done' = FALSE
        /\ source' = [source EXCEPT ![s] = path]
        /\ sample_buf' = [sample_buf EXCEPT ![s] = <<>>]
        /\ is_playing' = TRUE
        /\ current_path' = path
        /\ wpc' = [wpc EXCEPT ![s] = "next_packet"]
        /\ handle' = s
        /\ stream' = s
        /\ buffer' = <<>>
    /\ UNCHANGED <<is_paused, paused_flag, lock, pkt, samples, cb_pc, data,
                   pushed, popped>>

\* a slip: the shared flag not stored
SetPausedFieldOnly(paused) ==
    /\ is_paused' = paused
    /\ UNCHANGED <<current_path, is_playing, handle, stream, buffer, nsessions,
                   source, flags, sample_buf, lock, wrk, cb_pc, data, pushed, popped>>

\* Player::set_paused, through pause() (TRUE) or resume() (FALSE)
SetPaused(paused) ==
    /\ is_paused' = paused
    /\ paused_flag' = paused
    /\ UNCHANGED <<current_path, is_playing, handle, stream, buffer, nsessions,
                   source, autoplay_trigger, is_decoder_done, sample_buf, lock,
                   wrk, cb_pc, data, pushed, popped>>

Pause == SetPaused(TRUE)

Resume == SetPaused(FALSE)

\* --------------------------------------------------------- decode thread
\* One turn of `while let Ok(packet) = format.next_packet()` up to the append:
\* next_packet, decoder.decode and the normalization match into the local Vec.
\* These steps touch nothing another thread can see, so they are one action.
WorkerNextPacket(s) ==
    /\ wpc[s] = "next_packet"
    /\ IF pkt[s] < Len(Packets(source[s]))
       THEN /\ pkt' = [pkt EXCEPT ![s] = @ + 1]
            /\ LET p == Packets(source[s])[pkt[s] + 1] IN
                IF p.res = "err"
                THEN /\ wpc' = [wpc EXCEPT ![s] = AfterDecodeErr]
                     /\ UNCHANGED samples
                ELSE IF p.fmt \in Supported
                THEN /\ samples' = [samples EXCEPT ![s] = FrameLoop(p, 1)]
                     /\ wpc' = [wpc EXCEPT ![s] = "lock"]
                ELSE /\ wpc' = [wpc EXCEPT ![s] = AfterUnsupported]
                     /\ UNCHANGED samples
       ELSE /\ wpc' = [wpc EXCEPT ![s] = "store_done"]
            /\ UNCHANGED <<pkt, samples>>
    /\ UNCHANGED <<ctl, flags, sample_buf, lock, cb_pc, data, pushed, popped>>

\* decode_buffer.lock(): the thread waits here while the mutex is taken
WorkerLock(s) ==
    /\ wpc[s] = "lock"
    /\ lock[s] = "free"
    /\ lock' = [lock EXCEPT ![s] = "decode"]
    /\ wpc' = [wpc EXCEPT ![s] = "extend"]
    /\ UNCHANGED <<ctl, flags, sample_buf, pkt, samples, cb_pc, data, pushed, popped>>

\* a slip: the guard bound to a local, so the mutex is still held after the
\* append (over the sleep and the next packet's decoding)
WorkerExtendKeepLock(s) ==
    /\ wpc[s] = "extend"
    /\ sample_buf' = [sample_buf EXCEPT ![s] = Extend(@, samples[s])]
    /\ pushed' = [pushed EXCEPT ![s] = @ \o samples[s]]
    /\ samples' = [samples EXCEPT ![s] = <<>>]
    /\ wpc' = [wpc EXCEPT ![s] = "next_packet"]
    /\ UNCHANGED <<ctl, flags, lock, pkt, cb_pc, data, popped>>

\* .extend(samples), the guard dropped at the end of the statement, and the
\* 10 ms sleep that follows (the sleep touches no shared state)
WorkerExtend(s) ==
    /\ wpc[s] = "extend"
    /\ sample_buf' = [sample_buf EXCEPT ![s] = Extend(@, samples[s])]
    /\ pushed' = [pushed EXCEPT ![s] = @ \o samples[s]]
    /\ samples' = [samples EXCEPT ![s] = <<>>]
    /\ lock' = [lock EXCEPT ![s] = "free"]
    /\ wpc' = [wpc EXCEPT ![s] = "next_packet"]
    /\ UNCHANGED <<ctl, flags, pkt, cb_pc, data, popped>>

\* a slip: the thread raises the end-of-track signal itself
WorkerStoreDoneTrigger(s) ==
    /\ wpc[s] = "store_done"
    /\ is_decoder_done' = DoneStored
    /\ autoplay_trigger' = TRUE
    /\ wpc' = [wpc EXCEPT ![s] = "exited"]
    /\ UNCHANGED <<ctl, paused_flag, sample_buf, lock, pkt, samples,
                   cb_pc, data, pushed, popped>>

\* decoder_done_for_thread.store(true), and the thread ends
WorkerStoreDone(s) ==
    /\ wpc[s] = "store_done"
    /\ is_decoder_done' = DoneStored
    /\ wpc' = [wpc EXCEPT ![s] = "exited"]
    /\ UNCHANGED <<ctl, autoplay_trigger, paused_flag, sample_buf, lock, pkt, samples,
                   cb_pc, data, pushed, popped>>

Worker(s) ==
    \/ WorkerNextPacket(s)
    \/ WorkerLock(s)
    \/ WorkerExtend(s)
    \/ WorkerStoreDone(s)

\* -------------------------------------------------------- audio callback
\* the device asks for n samples: the closure is entered and reaches
\* sample_buf_clone.lock()
CallbackInvoke(n) ==
    /\ stream # 0
    /\ cb_pc = "idle"
    /\ cb_pc' = "lock"
    /\ data' = [i \in 1..n |-> Stale]
    /\ UNCHANGED <<ctl, flags, sample_buf, lock, wrk, pushed, popped>>

\* a slip: the queue made once and shared by all sessions, as the flags are, so
\* that every session's callback pops the first session's queue
CallbackRunFirstQueue ==
    /\ cb_pc = "lock"
    /\ lock[1] = "free"
    /\ LET r == IF paused_flag THEN PausedFill(sample_buf[1], Len(data))
                ELSE FillData(sample_buf[1], Len(data))
       IN /\ data' = r.data
          /\ sample_buf' = [sample_buf EXCEPT ![1] = r.buf]
          /\ popped' = [popped EXCEPT ![stream] = @ \o r.got]
          /\ autoplay_trigger' =
                IF ~paused_flag /\ TriggerCond(r.buf, is_decoder_done)
                THEN TRUE ELSE autoplay_trigger
    /\ cb_pc' = "return"
    /\ UNCHANGED <<ctl, is_decoder_done, paused_flag, lock, wrk, pushed>>

\* a slip: the closure stores the value of its completion test instead of
\* storing true when the test holds
CallbackRunStoreTest ==
    /\ cb_pc = "lock"
    /\ lock[stream] = "free"
    /\ LET r == IF paused_flag THEN PausedFill(sample_buf[stream], Len(data))
                ELSE FillData(sample_buf[stream], Len(data))
       IN /\ data' = r.data
          /\ sample_buf' = [sample_buf EXCEPT ![stream] = r.buf]
          /\ popped' = [popped EXCEPT ![stream] = @ \o r.got]
          /\ autoplay_trigger' =
                IF ~paused_flag THEN TriggerCond(r.buf, is_decoder_done)
                ELSE autoplay_trigger
    /\ cb_pc' = "return"
    /\ UNCHANGED <<ctl, is_decoder_done, paused_flag, lock, wrk, pushed>>

\* the closure from the moment it holds the mutex to its return (the guard is
\* held over the whole body, so nothing else touches sample_buf meanwhile)
CallbackRun ==
    /\ cb_pc = "lock"
    /\ lock[stream] = "free"
    /\ LET r == IF paused_flag THEN PausedFill(sample_buf[stream], Len(data))
                ELSE FillData(sample_buf[stream], Len(data))
       IN /\ data' = r.data
          /\ sample_buf' = [sample_buf EXCEPT ![stream] = r.buf]
          /\ popped' = [popped EXCEPT ![stream] = @ \o r.got]
          /\ autoplay_trigger' =
                IF ~paused_flag /\ TriggerCond(r.buf, is_decoder_done)
                THEN TRUE ELSE autoplay_trigger
    /\ cb_pc' = "return"
    /\ UNCHANGED <<ctl, is_decoder_done, paused_flag, lock, wrk, pushed>>

\* the closure has returned: the device takes the slice it was given
CallbackReturn ==
    /\ cb_pc = "return"
    /\ cb_pc' = "idle"
    /\ data' = <<>>
    /\ UNCHANGED <<ctl, flags, sample_buf, lock, wrk, pushed, popped>>

Next ==
    \/ \E path \in Paths : Play(path)
    \/ Stop
    \/ Pause
    \/ Resume
    \/ \E s \in SessionIds : Worker(s)
    \/ \E n \in 1..MaxN : CallbackInvoke(n)
    \/ CallbackRun
    \/ CallbackReturn

Spec == Init /\ [][Next]_vars

TypeOK ==
    /\ current_path \in Paths \cup FormatFiles \cup {None}
    /\ is_playing \in BOOLEAN
    /\ stream \in 0..MaxSessions
    /\ nsessions \in 0..MaxSessions
    /\ cb_pc \in {"idle", "lock", "return"}

\* The player right after new() and play(path) of a one-packet file.
FormatInit ==
    /\ \E path \in FormatFiles :
        /\ current_path = path
        /\ source = [s \in SessionIds |-> IF s = 1 THEN path ELSE None]
    /\ is_playing = TRUE
    /\ handle = 1
    /\ stream = 1
    /\ buffer = <<>>
    /\ autoplay_trigger = FALSE
    /\ is_decoder_done = FALSE
    /\ is_paused = FALSE
    /\ paused_flag = FALSE
    /\ nsessions = 1
    /\ sample_buf = [s \in SessionIds |-> <<>>]
    /\ lock = [s \in SessionIds |-> "free"]
    /\ wpc = [s \in SessionIds |-> IF s = 1 THEN "next_packet" ELSE "unborn"]
    /\ pkt = [s \in SessionIds |-> 0]
    /\ samples = [s \in SessionIds |-> <<>>]
    /\ cb_pc = "idle"
    /\ data = <<>>
    /\ pushed = [s \in SessionIds |-> <<>>]
    /\ popped = [s \in SessionIds |-> <<>>]

\* that session left to its decode thread, its callback and pause / resume
FormatNext ==
    \/ Pause
    \/ Resume
    \/ \E s \in SessionIds : Worker(s)
    \/ \E n \in 1..MaxN : CallbackInvoke(n)
    \/ CallbackRun
    \/ CallbackReturn

FormatSpec == FormatInit /\ [][FormatNext]_vars

\* decode thread and callback are scheduled again and again: every thread that
\* can step eventually does, and the device keeps calling the stream it plays
LiveSpec ==
    /\ Init /\ [][Next]_vars
    /\ \A s \in SessionIds : WF_vars(Worker(s))
    /\ WF_vars(\E n \in 1..MaxN : CallbackInvoke(n))
    /\ WF_vars(CallbackRun)
    /\ WF_vars(CallbackReturn)

\* ------------------------------------------------------------ properties
\* a step of the callback body
CallbackStep == cb_pc = "lock" /\ cb_pc' = "return"

\* a stop() call that ends a session
StopStep == stream # 0 /\ stream' = 0

\* a play() call
PlayStep == nsessions' = nsessions + 1

\* the queue of the session the controller plays (none while idle)
SessionQueue == IF stream = 0 THEN <<>> ELSE sample_buf[stream]

\* n slots of silence
Zeros(n) == [i \in 1..n |-> Silence]

\* the decode thread of s is past its packet loop
LoopLeft(s) == wpc[s] \in {"store_done", "exited"}

\* the samples of a packet, frame-major and channel-minor, or none for a packet
\* that fails to decode or has no supported format
PacketSamples(p) ==
    IF p.res = "err" \/ p.fmt \notin Supported THEN <<>>
    ELSE LET C == Len(p.chan)
             F == Len(p.chan[1])
         IN [i \in 1..(F * C) |->
                Normalize(p.fmt, p.chan[((i - 1) % C) + 1][((i - 1) \div C) + 1])]

RECURSIVE SamplesUpTo(_, _)
\* the samples of the first k packets of a file
SamplesUpTo(path, k) ==
    IF k = 0 THEN <<>>
    ELSE SamplesUpTo(path, k - 1) \o PacketSamples(Packets(path)[k])

\* packets of session s whose turn of the loop is over
PacketsHandled(s) == IF wpc[s] \in {"lock", "extend"} THEN pkt[s] - 1 ELSE pkt[s]

\* C1: while a session is playing, autoplay_trigger is true only if that
\* session's own decode thread has left its packet loop and its queue is empty.
C1_TriggerOwnSession ==
    (stream # 0 /\ autoplay_trigger) => (LoopLeft(stream) /\ sample_buf[stream] = <<>>)

\* C2: a callback that runs unpaused raises autoplay_trigger exactly when, after
\* the fill, the queue is empty and is_decoder_done reads true; if it drains the
\* queue while is_decoder_done is false it pads with silence and leaves the
\* trigger as it was.
C2_TriggerIff ==
    [][(CallbackStep /\ ~paused_flag) =>
        /\ (~autoplay_trigger /\ autoplay_trigger')
              <=> (~autoplay_trigger /\ sample_buf'[stream] = <<>> /\ is_decoder_done)
        /\ (sample_buf'[stream] = <<>> /\ ~is_decoder_done) =>
              /\ autoplay_trigger' = autoplay_trigger
              /\ \A i \in 1..Len(data') :
                    i > Len(sample_buf[stream]) => data'[i] = Silence]_vars

\* C2 happens: a callback emptied the queue before the decoder was done, padded
\* with silence and did not raise the trigger
C2_Witness ==
    /\ cb_pc = "return" /\ stream # 0
    /\ ~paused_flag /\ ~is_decoder_done /\ ~autoplay_trigger
    /\ sample_buf[stream] = <<>> /\ popped[stream] # <<>>
    /\ ~LoopLeft(stream)
    /\ data[Len(data)] = Silence

\* C3: in every session the samples the callback took from the queue are a
\* prefix of the samples the decode thread appended, in the same order.
C3_Fifo ==
    \A s \in SessionIds :
        /\ Len(popped[s]) <= Len(pushed[s])
        /\ popped[s] = SubSeq(pushed[s], 1, Len(popped[s]))

\* C3 happens: samples of two batches were taken while more are queued or coming
C3_Witness ==
    \E s \in SessionIds :
        /\ Len(popped[s]) = 3
        /\ pkt[s] = 3

\* C4: an unpaused callback asked for N samples with M queued yields the M
\* queued samples then N-M zeros and an empty queue if M < N, else the first N
\* queued samples, the queue keeping the other M-N; it runs with the mutex free
\* of the decode thread.
C4_Fill ==
    [][(CallbackStep /\ ~paused_flag) =>
        LET q == sample_buf[stream]
            N == Len(data)
            M == Len(q)
        IN /\ lock[stream] = "free" /\ lock' = lock
           /\ Len(data') = N
           /\ IF M < N
              THEN /\ data' = q \o Zeros(N - M)
                   /\ sample_buf'[stream] = <<>>
              ELSE /\ data' = SubSeq(q, 1, N)
                   /\ sample_buf'[stream] = SubSeq(q, N + 1, M)]_vars

\* C4 happens: an underrun with one real sample followed by silence
C4_Witness ==
    /\ cb_pc = "return" /\ stream # 0
    /\ Len(data) = 2 /\ data[1] # Silence /\ data[2] = Silence
    /\ sample_buf[stream] = <<>>

\* C5: a callback that sees paused_flag true writes zeros to every slot and
\* leaves the queue and autoplay_trigger as they were; while paused_flag stays
\* true no queue gets shorter.
C5_Paused ==
    [][/\ (CallbackStep /\ paused_flag) =>
            /\ data' = Zeros(Len(data))
            /\ sample_buf' = sample_buf
            /\ autoplay_trigger' = autoplay_trigger
       /\ (paused_flag /\ paused_flag') =>
            \A s \in SessionIds : Len(sample_buf'[s]) >= Len(sample_buf[s])]_vars

\* C5 happens: a paused callback returned silence over a queue that holds at
\* least the samples it was asked for
C5_Witness ==
    /\ cb_pc = "return" /\ stream # 0 /\ paused_flag
    /\ data = Zeros(Len(data))
    /\ Len(sample_buf[stream]) >= Len(data)
    /\ popped[stream] = <<>>

\* C6: right after stop() is_loaded() is false and the queue of the session it
\* ended is empty.
C6_StopClearsQueue ==
    [][StopStep => (current_path' = None /\ sample_buf'[stream] = <<>>)]_vars

\* C7: right after play() is_playing and is_loaded() are true and paused_flag
\* is false.
C7_PlayUnpaused ==
    [][PlayStep => (is_playing' /\ current_path' # None /\ ~paused_flag')]_vars

\* C8: is_done() is true exactly when is_playing is true and the session's
\* sample queue is empty.
C8_IsDone == is_done <=> (is_playing /\ SessionQueue = <<>>)

\* C9: the samples a decode thread has appended are those of the decodable,
\* supported packets among the ones it has handled, in packet order (a failed
\* or unsupported packet adds nothing), and the thread leaves its loop only
\* when the packets are exhausted.
C9_SkipBadPacket ==
    \A s \in SessionIds :
        wpc[s] # "unborn" =>
            /\ pushed[s] = SamplesUpTo(source[s], PacketsHandled(s))
            /\ LoopLeft(s) => pkt[s] = Len(Packets(source[s]))

\* C9 happens: a thread is through a file with a failing packet between two
\* good ones, and another through a file that starts with an unsupported one
C9_Witness ==
    /\ \E s \in SessionIds :
        source[s] = "a.flac" /\ wpc[s] = "exited" /\ Len(pushed[s]) = 3
    /\ \E s \in SessionIds :
        source[s] = "b.wav" /\ wpc[s] = "exited" /\ Len(pushed[s]) = 1

\* C10: a session that is never stopped or replaced and is in the end unpaused
\* for good eventually has autoplay_trigger true.
C10_EndSignalled ==
    \A s \in SessionIds :
        <>[](stream = s /\ ~paused_flag) => <>(stream = s /\ autoplay_trigger)

\* C10 happens: the playing session's thread is gone, all it appended was
\* taken, and the trigger is up
C10_Witness ==
    /\ stream # 0 /\ ~paused_flag /\ autoplay_trigger
    /\ wpc[stream] = "exited"
    /\ pushed[stream] # <<>> /\ popped[stream] = pushed[stream]

\* the decode thread of s ends in this step
WorkerExits(s) == wpc[s] # "exited" /\ wpc'[s] = "exited"

\* C11: every decode thread that was started eventually ends, playing session
\* or orphan; it ends by the store of is_decoder_done = true, made once, with
\* every packet taken and every sample of the file's good packets appended, and
\* is_decoder_done never turns true in any other step.
C11_WorkerEnds ==
    /\ \A s \in SessionIds : (wpc[s] # "unborn") ~> (wpc[s] = "exited")
    /\ [][\A s \in SessionIds :
            /\ WorkerExits(s) =>
                  /\ wpc[s] = "store_done"
                  /\ is_decoder_done'
                  /\ pkt[s] = Len(Packets(source[s]))
                  /\ samples[s] = <<>> /\ lock[s] = "free"
                  /\ pushed[s] = SamplesUpTo(source[s], Len(Packets(source[s])))
                  /\ pushed' = pushed /\ sample_buf' = sample_buf
            /\ wpc[s] = "exited" =>
                  /\ wpc'[s] = "exited"
                  /\ pushed'[s] = pushed[s]]_vars
    /\ [][(~is_decoder_done /\ is_decoder_done') =>
            \E s \in SessionIds : WorkerExits(s)]_vars

\* C11 happens: a thread orphaned by stop() and one orphaned by a later play()
\* have both ended, the first after appending its whole file
C11_Witness ==
    /\ stream = 0 /\ nsessions = 2
    /\ wpc[1] = "exited" /\ wpc[2] = "exited"
    /\ source[1] = "a.flac" /\ Len(pushed[1]) = 3
    /\ is_decoder_done

\* C12: no callback invocation ever waits for the mutex of its sample queue
\* while the decode thread holds it.
C12_CallbackNeverWaits ==
    ~(stream # 0 /\ cb_pc = "lock" /\ lock[stream] = "decode")

\* a step of the control thread: play, stop, pause or resume
ControlStep ==
    \/ nsessions' # nsessions
    \/ stream' # stream
    \/ is_paused' # is_paused
    \/ paused_flag' # paused_flag

\* C13: a decode thread holds the mutex of its sample queue only while it is
\* at the append; fetching and decoding a packet, waiting for the mutex,
\* sleeping, storing is_decoder_done or gone, it does not hold it; and no step
\* of the control thread takes or releases a queue's mutex.
C13_MutexOnlyForAppend ==
    /\ [](\A s \in SessionIds :
            /\ lock[s] \in {"free", "decode"}
            /\ lock[s] = "decode" <=> wpc[s] = "extend")
    /\ [][ControlStep => lock' = lock]_vars

\* C13 happens: one thread holds its mutex at the append while another is
\* between appends with its mutex free
C13_Witness ==
    \E s, t \in SessionIds :
        /\ wpc[s] = "extend" /\ lock[s] = "decode"
        /\ wpc[t] = "next_packet" /\ pkt[t] > 0 /\ pushed[t] # <<>> /\ lock[t] = "free"

\* C14: once true, autoplay_trigger stays true in every step of the callback,
\* of a decode thread, of stop(), pause() and resume(); only a play() call
\* takes it back to false, so it rises at most once between two play() calls.
C14_TriggerSticky ==
    [][/\ (autoplay_trigger /\ ~autoplay_trigger') => PlayStep
       /\ (autoplay_trigger /\ ~PlayStep) => autoplay_trigger']_vars

\* C14 happens: the trigger of the only session so far is still up after the
\* session was stopped and the player paused
C14_Witness ==
    /\ nsessions = 1 /\ stream = 0
    /\ autoplay_trigger /\ paused_flag
    /\ popped[1] = pushed[1] /\ wpc[1] = "exited"

\* smp is the packet p frame-major and channel-minor: F*C samples, the one of
\* frame f and channel c at place (f-1)*C + c
FrameMajor(p, smp) ==
    LET C == Len(p.chan)
        F == Len(p.chan[1])
    IN /\ Len(smp) = F * C
       /\ \A f \in 1..F : \A c \in 1..C :
            smp[(f - 1) * C + c] = Normalize(p.fmt, p.chan[c][f])

\* the last packet the thread of s took
LastPacket(s) == Packets(source[s])[pkt[s]]

\* the last n elements of a sequence
LastN(q, n) == SubSeq(q, Len(q) - n + 1, Len(q))

\* C15: for every supported format, the samples of a packet of F frames and C
\* channels are normalized frame-major and channel-minor into F*C samples, and
\* appended as one batch at the end of what was appended before; the S16 packet
\* [(100,-100), (32767,-32768)] gives 100, -100, 32767, -32768 over 32767.
C15_FrameMajor ==
    \A s \in SessionIds :
        (pkt[s] >= 1 /\ LastPacket(s).res = "ok" /\ LastPacket(s).fmt \in Supported) =>
            LET p == LastPacket(s)
                n == Len(p.chan) * Len(p.chan[1])
            IN /\ wpc[s] \in {"lock", "extend"} => FrameMajor(p, samples[s])
               /\ wpc[s] \notin {"lock", "extend"} =>
                    /\ Len(pushed[s]) >= n
                    /\ FrameMajor(p, LastN(pushed[s], n))
                    /\ Len(sample_buf[s]) <= n =>
                          sample_buf[s] = LastN(pushed[s], Len(sample_buf[s]))
               /\ (source[s] = "s16.raw" /\ pushed[s] # <<>>) =>
                    pushed[s] = << <<100, I16Max>>, <<-100, I16Max>>,
                                   <<32767, I16Max>>, <<-32768, I16Max>> >>

\* C15 happens: the S16 packet of 2 channels and 2 frames is in the queue,
\* nothing popped yet
C15_Witness ==
    /\ source[1] = "s16.raw"
    /\ Len(sample_buf[1]) = 4 /\ sample_buf[1] = pushed[1]
    /\ popped[1] = <<>>

\* a step of the decode thread of s
WorkerStep(s) == wpc[s] # "unborn" /\ (wpc'[s] # wpc[s] \/ pkt'[s] # pkt[s])

\* q is the beginning of r
IsPrefix(q, r) == Len(q) <= Len(r) /\ q = SubSeq(r, 1, Len(q))

\* C16: a step of a decode thread changes, outside the thread's own locals and
\* its queue's mutex, only its own queue, by appending at the end, and
\* is_decoder_done: paused_flag, autoplay_trigger, the controller's fields, the
\* callback and every other session's queue and thread stay as they were.
C16_WorkerFrame ==
    [][\A s \in SessionIds : WorkerStep(s) =>
        /\ UNCHANGED <<paused_flag, autoplay_trigger, is_paused, is_playing,
                       current_path, stream, handle, buffer, nsessions, source,
                       cb_pc, data, popped>>
        /\ IsPrefix(sample_buf[s], sample_buf'[s])
        /\ \A t \in SessionIds \ {s} :
            /\ sample_buf'[t] = sample_buf[t]
            /\ lock'[t] = lock[t]
            /\ wpc'[t] = wpc[t] /\ pkt'[t] = pkt[t] /\ samples'[t] = samples[t]
            /\ pushed'[t] = pushed[t]]_vars

\* C16 happens: an orphaned thread has appended to its queue and stored
\* is_decoder_done while the controller plays, paused, another session whose
\* trigger is down
C16_Witness ==
    /\ stream = 2 /\ paused_flag /\ ~autoplay_trigger
    /\ wpc[1] = "exited" /\ sample_buf[1] # <<>>
    /\ is_decoder_done
    /\ sample_buf[2] # <<>>

\* C17: each play() starts an empty queue of its own and touches no other; a
\* callback pops only the queue of the session it plays; so in every session,
\* orphaned or not, what its callback took followed by what is queued is what
\* its own decode thread appended, which comes from its own file.
C17_SessionsIsolated ==
    /\ [](\A s \in SessionIds :
            /\ popped[s] \o sample_buf[s] = pushed[s]
            /\ source[s] # None =>
                 IsPrefix(pushed[s], SamplesUpTo(source[s], Len(Packets(source[s])))))
    /\ [][/\ PlayStep =>
                /\ sample_buf'[nsessions'] = <<>>
                /\ \A t \in 1..nsessions :
                     sample_buf'[t] = sample_buf[t] /\ popped'[t] = popped[t]
          /\ CallbackStep =>
                \A t \in SessionIds \ {stream} :
                     sample_buf'[t] = sample_buf[t] /\ popped'[t] = popped[t]]_vars

\* C17 happens: the thread of an orphaned session appended its whole file to
\* a queue that still holds samples, while the callback of the next session,
\* playing another file, took samples of that file
C17_Witness ==
    /\ stream = 2 /\ source[1] # source[2]
    /\ wpc[1] = "exited" /\ sample_buf[1] # <<>>
    /\ popped[2] # <<>>

\* C18: stop() sets stream to None, is_playing to false, current_path to None
\* and clears Player.buffer, and leaves autoplay_trigger, is_decoder_done,
\* is_paused and paused_flag (and everything else) as they were; a stop() on a
\* stopped player changes nothing.
C18_StopFrame ==
    /\ [][StopStep =>
            /\ ~is_playing' /\ current_path' = None /\ buffer' = <<>>
            /\ UNCHANGED <<autoplay_trigger, is_decoder_done, is_paused, paused_flag,
                           handle, nsessions, source, sample_buf, lock, wpc, pkt,
                           samples, cb_pc, data, pushed, popped>>]_vars
    /\ [](stream = 0 => (~is_playing /\ current_path = None /\ buffer = <<>>))
    /\ [][(stream = 0 /\ Stop) => UNCHANGED vars]_vars

\* C18 happens: a session that had signalled its end and was paused has been
\* stopped, and signal, decoder flag and pause are still up
C18_Witness ==
    /\ stream = 0 /\ nsessions >= 1 /\ handle = nsessions
    /\ ~is_playing /\ current_path = None
    /\ autoplay_trigger /\ is_decoder_done /\ is_paused /\ paused_flag

\* C19: between the controller's calls is_loaded(), is_playing and "a stream
\* is held" are all true or all false, and is_paused equals paused_flag.
C19_ControllerConsistent ==
    /\ is_loaded <=> is_playing
    /\ is_playing <=> stream # 0
    /\ is_paused = paused_flag

\* C19 happens: a second session is loaded, playing and paused after the
\* first one was played, paused and replaced
C19_Witness ==
    /\ nsessions = 2 /\ stream = 2
    /\ is_loaded /\ is_playing
    /\ is_paused /\ paused_flag
    /\ popped[1] # <<>>

====
